---- MODULE Spec2Model ----
(***************************************************************************)
(* Partition training orchestrator of utils/train_partitions.py:           *)
(* PartitionTraining.train_partitions, train_a_partition, run_subprocess   *)
(* and get_trainable_partition_idx_list, as state machines.                *)
(***************************************************************************)
EXTENDS Integers, Sequences, FiniteSets, TLC

\* ------------------------------------------------------------------ bounds
NumPartitions == 3          \* partitions of the partition index
NumImages == 2              \* source images of the scene
MaxRuns == 2                \* successive train_partitions invocations
MaxInterrupts == 1          \* operator interrupts delivered during one run
MaxWorkers == 2             \* worker processes the partitions are shared among
MaxPool == 2                \* partitions submitted to the pool of one concurrent run
MaxLines == 2               \* lines a child writes to one stream
PipeCap == 2                \* bytes a pipe holds before a write to it blocks

Partitions == 0 .. NumPartitions - 1
Images == 1 .. NumImages

\* ------------------------------------------------------- sequences helpers
Range(s) == {s[i] : i \in 1 .. Len(s)}

RECURSIVE SeqOfSet(_)
\* The ascending list of a finite set of integers.
SeqOfSet(S) ==
    IF S = {} THEN <<>>
    ELSE LET m == CHOOSE x \in S : \A y \in S : x <= y
         IN <<m>> \o SeqOfSet(S \ {m})

RECURSIVE FilterSeq(_, _)
\* The elements of s that are in S, in the order of s.
FilterSeq(s, S) ==
    IF s = <<>> THEN <<>>
    ELSE (IF Head(s) \in S THEN <<Head(s)>> ELSE <<>>) \o FilterSeq(Tail(s), S)

\* ------------------------------------------------- marker text <-> integer
DigitChars == <<"0", "1", "2", "3", "4", "5", "6", "7", "8", "9">>
Whitespace == {" ", "\n"}

DigitValue(c) == (CHOOSE i \in 1 .. 10 : DigitChars[i] = c) - 1

IsDigit(c) == \E i \in 1 .. 10 : DigitChars[i] = c

RECURSIVE FormatNat(_)
\* "{}".format(n) of a non-negative int: its decimal digits, no leading zero.
FormatNat(n) ==
    IF n < 10 THEN <<DigitChars[n + 1]>>
    ELSE FormatNat(n \div 10) \o <<DigitChars[(n % 10) + 1]>>

\* "{}".format(max_steps)
FormatInt(n) == IF n < 0 THEN <<"-">> \o FormatNat(0 - n) ELSE FormatNat(n)

RECURSIVE LStrip(_)
LStrip(t) == IF t # <<>> /\ Head(t) \in Whitespace THEN LStrip(Tail(t)) ELSE t

RECURSIVE RStrip(_)
RStrip(t) ==
    IF t # <<>> /\ t[Len(t)] \in Whitespace THEN RStrip(SubSeq(t, 1, Len(t) - 1)) ELSE t

RECURSIVE DigitsValue(_, _)
DigitsValue(t, acc) ==
    IF t = <<>> THEN acc ELSE DigitsValue(Tail(t), 10 * acc + DigitValue(Head(t)))

\* int(text): surrounding whitespace is dropped, one sign is allowed, then at
\* least one decimal digit; anything else raises ValueError (ok = FALSE).
ParseInt(text) ==
    LET t == RStrip(LStrip(text))
        signed == t # <<>> /\ Head(t) \in {"+", "-"}
        d == IF signed THEN Tail(t) ELSE t
        ok == d # <<>> /\ \A i \in 1 .. Len(d) : IsDigit(d[i])
        mag == IF ok THEN DigitsValue(d, 0) ELSE 0
    IN [ok |-> ok, value |-> IF signed /\ Head(t) = "-" THEN 0 - mag ELSE mag]

\* ------------------------------------------------------------ the scene
\* self.scene: per partition, the images assigned by location and by
\* visibility (the boolean rows of the two assignment matrices, as sets).
Scenes == [loc : [Partitions -> SUBSET Images], vis : [Partitions -> SUBSET Images]]

\* The scene the orchestrator runs are checked on: odd partitions own every
\* image by location, even ones only the first; every third one sees the
\* last image by visibility only.
DefaultScene ==
    [loc |-> [p \in Partitions |-> IF p % 2 = 1 THEN Images ELSE {1}],
     vis |-> [p \in Partitions |-> IF p % 3 = 2 THEN {NumImages} ELSE {}]]

\* Mutant: the image count taken over location and visibility together.
ImageNumbersWithVisibility(sc) ==
    [p \in Partitions |-> Cardinality(sc.loc[p] \cup sc.vis[p])]

\* scene["location_based_assignments"].sum(-1)
get_location_based_assignment_numbers(sc) ==
    [p \in Partitions |-> Cardinality(sc.loc[p])]

\* logical_or(location, visibility)[partition_idx].sum(-1).item()
get_partition_image_number(sc, p) == Cardinality(sc.loc[p] \cup sc.vis[p])

\* partition_coordinates.get_str_id(idx): a stable string per partition.
get_partition_id_str(p) == ToString(p)

\* "{}{}".format(id_str, name_suffix)
get_experiment_name(p, suffix) == <<get_partition_id_str(p), suffix>>

\* Mutant: one marker filename for every partition of the suffix.
SharedTrainedStepFilename(p, suffix) == <<suffix, "-trained">>

\* "{}-trained".format(experiment_name)
get_partition_trained_step_filename(p, suffix) ==
    get_experiment_name(p, suffix) \o <<"-trained">>

\* ------------------------------------------------------------- sharding
RECURSIVE EveryNth(_, _, _)
\* all_tasks[start :: step] with a 0-based start.
EveryNth(tasks, start, step) ==
    IF start >= Len(tasks) THEN <<>>
    ELSE <<tasks[start + 1]>> \o EveryNth(SubSeq(tasks, step + 1, Len(tasks)), start, step)

\* distibuted_tasks.get_task_list: the worker's share of an ordered task list.
get_task_list(n_processors, current_processor_id, all_tasks) ==
    EveryNth(all_tasks, current_processor_id, n_processors)

\* Mutant: a partition with exactly min_images images left out.
AllTrainableStrict(sc, min_images) ==
    SeqOfSet({p \in Partitions : get_location_based_assignment_numbers(sc)[p] > min_images})

\* torch.ge(numbers, min_images).nonzero().squeeze(-1).tolist()
AllTrainable(sc, min_images) ==
    SeqOfSet({p \in Partitions : get_location_based_assignment_numbers(sc)[p] >= min_images})

get_trainable_partition_idx_list(sc, min_images, n_processes, process_id) ==
    get_task_list(n_processes, process_id, AllTrainable(sc, min_images))

\* Mutant: the allowlist not applied.
FilterAllowlistIgnored(raw, parts) == raw

\* The allowlist loop of train_partitions: partition_id_strs is None (given =
\* FALSE) or a list of id strings; a listed id that names no partition of the
\* shard changes nothing.
FilterAllowlist(raw, parts) ==
    FilterSeq(raw, {p \in Partitions : ~parts.given \/ get_partition_id_str(p) \in parts.ids})

\* ------------------------------------------------- hyper-parameter scaler
BaseEpochs == 5

\* auto_hyper_parameter: the step budget of a partition, a pure function of
\* its image number and the extra epochs.
auto_hyper_parameter(n_images, extra_epoch) == n_images * (BaseEpochs + extra_epoch)

\* ------------------------------------------------------------------ state
VARIABLES
    scene,        \* the partition index loaded by __init__
    config,       \* PartitionTrainingConfig of the current run
    marker,       \* per marker path, the resumption marker file: [exists, text]
    dirExists,    \* whether project_output_dir exists
    run,          \* ordinal of the current train_partitions invocation
    orch,         \* where train_partitions is
    todo,         \* trainable_partition_idx_list
    pos,          \* index in todo of the sequential loop, or of the next submit to the pool
    st,           \* per partition, where its train_a_partition call is
    ret,          \* per partition, the returned (partition_idx, ret_code), or <<>>
    exitc,        \* per partition, the exit code of its child, or <<>>
    printed,      \* per partition, the command vector displayed, or <<>>
    launched,     \* per partition, child processes launched in this run
    wrote,        \* per partition, marker writes (open for writing succeeded) in this run
    readOk,       \* per partition, the ledger read of this run ended without an exception
    finished,     \* the partitions whose future is done, in the order they completed
    batch,        \* the futures already done when as_completed began
    consumed,     \* the futures taken from as_completed, in order
    reports,      \* the "exited with code" lines written by the reporting loop
    interrupts,   \* KeyboardInterrupts raised so far in this run
    swallowed,    \* KeyboardInterrupts caught and not re-raised in this run
    prev          \* what the previous run was and did

orchVars == <<scene, config, marker, dirExists, run, orch, todo, pos, st, ret, exitc,
              printed, launched, wrote, readOk, finished, batch, consumed, reports,
              interrupts, swallowed, prev>>

\* run_subprocess and its child
VARIABLES
    content,      \* per stream, everything the child is to write to it
    left,         \* per stream, what the child has not written yet
    want,         \* the stream the child is writing to (blocked when its pipe is full), or "none"
    alive,        \* the child has not exited
    status,       \* the exit status of the child
    isOpen,       \* per stream, the child's end of the pipe is open
    pipe,         \* per stream, the bytes in the kernel pipe
    rbuf,         \* per stream, the bytes in the BufferedReader of p.stdout / p.stderr
    reg,          \* the streams registered with the selector
    events,       \* the ready streams select() returned that the for loop has not handled
    spc,          \* where run_subprocess is
    sink,         \* the lines given to output_redirect, in order
    returncode    \* what run_subprocess returned, or <<>>

supVars == <<content, left, want, alive, status, isOpen, pipe, rbuf, reg, events, spc, sink,
             returncode>>

\* get_trainable_partition_idx_list and the allowlist loop, per worker
VARIABLES
    shardOf,      \* per worker id, the list its last call returned
    finalOf,      \* per worker id, trainable_partition_idx_list after the allowlist loop
    called        \* the worker ids that have called

shardVars == <<shardOf, finalOf, called>>

\* the command builder of train_a_partition on its own
VARIABLES
    subtype,      \* what the hooks of the PartitionTraining subclass return
    cmd           \* per partition, the command vector built for it, or <<>>

cmdVars == <<subtype, cmd>>

\* PartitionTrainingConfig.parse_scalable_params and the module globals it uses
VARIABLES
    SCALABEL_PARAMS,                    \* the built-in dict object: name -> base value
    EXTRA_EPOCH_SCALABLE_STEP_PARAMS,   \* the built-in list object
    args,         \* the arguments of the last invocation
    parsed,       \* what the last invocation returned, or that it raised
    parses        \* invocations so far

parseVars == <<SCALABEL_PARAMS, EXTRA_EPOCH_SCALABLE_STEP_PARAMS, args, parsed, parses>>

vars == <<orchVars, supVars, shardVars, cmdVars, parseVars>>

NoFile == [exists |-> FALSE, text |-> <<>>]
File(text) == [exists |-> TRUE, text |-> text]

\* Marker contents a run may find: not a number, a small budget, a larger one
\* followed by a newline.
InitTexts == {<<"x">>, <<"6">>, <<"1", "0", "\n">>}
ExtraEpochs == {0, 1}
ExitCodes == {0, 1, -9}

NoParts == [given |-> FALSE, ids |-> {}]
Sharding(n, id, m, parts) ==
    [n_processes |-> n, process_id |-> id, min_images |-> m, parts |-> parts]

\* The worker layouts and filters of the runs checked: one or two workers,
\* every partition or only those with all images, no allowlist or one that
\* names the last partition and an id that is no partition's.
Shardings ==
    { Sharding(n, id, m, parts) :
        n \in 1 .. MaxWorkers, id \in 0 .. MaxWorkers - 1, m \in {1, NumImages},
        parts \in {NoParts,
                   [given |-> TRUE, ids |-> {get_partition_id_str(NumPartitions - 1), "zzz"}],
                   [given |-> TRUE, ids |-> {"zzz"}]} }

\* train_partitions' list for a configuration (lines 345-357).
FilteredList(sc, cfg) ==
    FilterAllowlist(
        get_trainable_partition_idx_list(sc, cfg.min_images, cfg.n_processes, cfg.process_id),
        cfg.parts)

Config(d, s, sh) ==
    [dry_run |-> d, srun_args |-> s, extra_epoches |-> 0, name_suffix |-> "",
     project_name |-> "proj", config_file |-> [given |-> FALSE, path |-> ""],
     training_args |-> <<"--extra">>,
     n_processes |-> sh.n_processes, process_id |-> sh.process_id,
     min_images |-> sh.min_images, parts |-> sh.parts]

Configs ==
    { c \in { Config(d, s, sh) :
                d \in BOOLEAN, s \in {<<>>, <<"--gres=gpu:1">>}, sh \in Shardings } :
        /\ c.process_id < c.n_processes
        /\ (Len(c.srun_args) > 0 => Len(FilteredList(DefaultScene, c)) <= MaxPool) }

project_output_dir(cfg) == <<"outputs/", cfg.project_name>>

\* Lines 255-259: os.path.join(project_output_dir, trained-step filename).
partition_trained_step_file_path(p) ==
    project_output_dir(config) \o <<"/">>
        \o get_partition_trained_step_filename(p, config.name_suffix)

\* The marker files of the project directory, by path.
MarkerPaths == {partition_trained_step_file_path(p) : p \in Partitions}
Disk(f) == [path \in MarkerPaths |-> f]

\* The file a call for partition p opens, to read and to write.
MarkerOf(p) == marker[partition_trained_step_file_path(p)]

Fresh(f) == [p \in Partitions |-> f]

InitRun ==
    /\ orch = "start"
    /\ todo = <<>>
    /\ pos = 1
    /\ st = Fresh("pending")
    /\ ret = Fresh(<<>>)
    /\ exitc = Fresh(<<>>)
    /\ printed = Fresh(<<>>)
    /\ launched = Fresh(0)
    /\ wrote = Fresh(0)
    /\ readOk = Fresh(FALSE)
    /\ finished = <<>>
    /\ batch = {}
    /\ consumed = <<>>
    /\ reports = <<>>
    /\ interrupts = 0
    /\ swallowed = 0

NoPrev ==
    [any |-> FALSE, how |-> "", interrupts |-> 0, dry_run |-> FALSE, extra_epoches |-> 0,
     attempted |-> {}, zero |-> {}, failed |-> {}, read |-> {}]

InitOrch ==
    /\ scene = DefaultScene
    /\ config \in Configs
    /\ dirExists \in BOOLEAN
    /\ marker \in {Disk(NoFile)} \cup {Disk(File(t)) : t \in InitTexts}
    /\ (~dirExists => marker = Disk(NoFile))
    /\ run = 1
    /\ prev = NoPrev
    /\ InitRun

\* A train_partitions that has not begun: one worker, no filter, sequential.
IdleOrch ==
    /\ scene = DefaultScene
    /\ config = Config(FALSE, <<>>, Sharding(1, 0, 1, NoParts))
    /\ dirExists = TRUE
    /\ marker = Disk(NoFile)
    /\ run = 1
    /\ prev = NoPrev
    /\ InitRun

\* ------------------------------------------------------- command builder
\* What the subtype hooks of PartitionTraining return. The base class has no
\* default data parser (NotImplementedError) and empty argument lists.
BaseSubtype ==
    [dataparser |-> [supported |-> FALSE, name |-> ""],
     overridable |-> <<>>, dataset |-> <<>>, final |-> <<>>]

\* to_command_args(max_steps, scaled_params)
to_command_args(max_steps) == <<"--max_steps">> \o FormatInt(max_steps)

srun_output_dir(cfg) == project_output_dir(cfg) \o <<"/srun-outputs">>

\* Mutant: the non-overridable partition-specific arguments put right after
\* the config file.
TrainArgsFinalEarly(p, cfg, sub, max_steps) ==
    <<"python", "main.py", "fit">>
    \o (IF sub.dataparser.supported THEN <<"--data.parser", sub.dataparser.name>> ELSE <<>>)
    \o (IF cfg.config_file.given THEN <<"--config=", cfg.config_file.path>> ELSE <<>>)
    \o sub.final
    \o sub.overridable
    \o cfg.training_args
    \o sub.dataset
    \o to_command_args(max_steps)
    \o <<"-n=">> \o get_experiment_name(p, cfg.name_suffix)
    \o <<"--data.path", "dataset", "--project", cfg.project_name, "--output">>
    \o project_output_dir(cfg) \o <<"--logger", "wandb">>

\* The argument vector of train_a_partition, before the srun wrapping.
TrainArgs(p, cfg, sub, max_steps) ==
    <<"python", "main.py", "fit">>
    \o (IF sub.dataparser.supported THEN <<"--data.parser", sub.dataparser.name>> ELSE <<>>)
    \o (IF cfg.config_file.given THEN <<"--config=", cfg.config_file.path>> ELSE <<>>)
    \o sub.overridable
    \o cfg.training_args
    \o sub.dataset
    \o to_command_args(max_steps)
    \o <<"-n=">> \o get_experiment_name(p, cfg.name_suffix)
    \o <<"--data.path", "dataset", "--project", cfg.project_name, "--output">>
    \o project_output_dir(cfg) \o <<"--logger", "wandb">>
    \o sub.final

\* The srun prefix put before the vector when srun_args is not empty.
SrunPrefix(p, cfg) ==
    <<"srun", "--output=">> \o srun_output_dir(cfg) \o <<"/">>
    \o get_experiment_name(p, cfg.name_suffix) \o <<".txt">>
    \o <<"--job-name=", cfg.project_name, "-">> \o get_experiment_name(p, cfg.name_suffix)
    \o cfg.srun_args

BuildArgs(p, cfg, sub, max_steps) ==
    IF Len(cfg.srun_args) > 0
    THEN SrunPrefix(p, cfg) \o TrainArgs(p, cfg, sub, max_steps)
    ELSE TrainArgs(p, cfg, sub, max_steps)

\* ------------------------------------------------------ train_a_partition
Concurrent == Len(config.srun_args) > 0

MaxStepsOf(p) ==
    auto_hyper_parameter(get_partition_image_number(scene, p), config.extra_epoches)

\* The partitions submitted to the pool so far (lines 370-373).
Submitted ==
    IF orch = "submit" THEN {todo[i] : i \in 1 .. pos - 1} ELSE Range(todo)

Terminal == {"done", "raised", "kbi"}

\* The pool's calls that have begun and not ended: each holds a worker thread.
Busy == {q \in Submitted : st[q] \notin {"pending"} \cup Terminal}

\* Mutant: a pool of one worker.
PoolWorkersOne == IF todo = <<>> THEN 0 ELSE 1

\* ThreadPoolExecutor(max_workers=total_trainable_partitions)
PoolWorkers == Len(todo)

\* A submitted call runs on a worker thread of the pool: it begins when a
\* worker is free and then keeps its thread.
MayRunInPool(p) ==
    /\ orch \in {"submit", "collect", "drain", "exiting"}
    /\ p \in Submitted
    /\ (st[p] = "pending" => Cardinality(Busy) < PoolWorkers)

\* Mutant: the sequential loop not waiting for the current call.
MayRunUnordered(p) ==
    IF Len(config.srun_args) > 0
    THEN MayRunInPool(p)
    ELSE orch = "seq" /\ p \in Range(todo)

\* Whether the train_a_partition call of p may take a step: in the sequential
\* loop it is the current item; in the pool it is a submitted call with a
\* thread.
MayRun(p) ==
    IF Concurrent
    THEN MayRunInPool(p)
    ELSE orch = "seq" /\ pos <= Len(todo) /\ todo[pos] = p

\* Mutant: a marker that cannot be read counted as up to date.
ReadLedgerUnsetAsTrained(p, raised) ==
    IF raised \/ ~MarkerOf(p).exists \/ ~ParseInt(MarkerOf(p).text).ok
    THEN [ok |-> TRUE,
          value |-> auto_hyper_parameter(get_partition_image_number(scene, p),
                                         config.extra_epoches)]
    ELSE ParseInt(MarkerOf(p).text)

\* The try block around the marker read: any exception, KeyboardInterrupt
\* included, ends in "except: pass" and leaves no trained_steps.
ReadLedger(p, raised) ==
    IF raised \/ ~MarkerOf(p).exists THEN [ok |-> FALSE, value |-> 0]
    ELSE ParseInt(MarkerOf(p).text)

\* Mutant: the skip taken only for a strictly larger recorded budget.
SkipDecisionStrict(trained_steps, max_steps) == trained_steps > max_steps

\* if trained_steps >= max_steps
SkipDecision(trained_steps, max_steps) == trained_steps >= max_steps

\* Mutant: the marker written whatever the exit code.
WriteDueAlways(ret_code) == TRUE

\* if ret_code == 0
WriteDue(ret_code) == ret_code = 0

\* Mutant: the dry-run flag ignored.
AfterBuildIgnoringDryRun(dry_run) == "built"

\* if dry_run: the command is printed and nothing runs; else the try block
\* with run_subprocess is entered.
AfterBuild(dry_run) == IF dry_run THEN "done" ELSE "built"

\* What the caller of a train_a_partition call does when the call ends:
\* the sequential loop goes to the next item or is left by the exception;
\* in the pool the future of the call becomes done.
AfterCall(p, out) ==
    IF Concurrent
    THEN /\ finished' = IF out \in Terminal THEN Append(finished, p) ELSE finished
         /\ UNCHANGED <<orch, pos>>
    ELSE /\ UNCHANGED finished
         /\ IF out \notin Terminal
            THEN UNCHANGED <<orch, pos>>
            ELSE IF out = "done"
            THEN /\ pos' = pos + 1
                 /\ orch' = IF pos + 1 > Len(todo) THEN "returned" ELSE "seq"
            ELSE /\ pos' = pos
                 /\ orch' = IF out = "kbi" THEN "interrupted" ELSE "raised"

Interruptible == interrupts < MaxInterrupts

\* Lines 236-318: scaling, the marker read and the skip, the command vector,
\* and the dry-run display.
Start(p) ==
    /\ MayRun(p)
    /\ st[p] = "pending"
    /\ \E ev \in {"none", "build_exc"}
                 \cup (IF Interruptible THEN {"read_kbi", "build_kbi"} ELSE {}) :
         LET max_steps == MaxStepsOf(p)
             rd == ReadLedger(p, ev = "read_kbi")
             skip == rd.ok /\ SkipDecision(rd.value, max_steps)
             out == IF skip THEN "done"
                    ELSE IF ev = "build_exc" THEN "raised"
                    ELSE IF ev = "build_kbi" THEN "kbi"
                    ELSE AfterBuild(config.dry_run)
         IN /\ (skip => ev = "none")
            /\ st' = [st EXCEPT ![p] = out]
            /\ ret' = [ret EXCEPT ![p] =
                          IF skip THEN <<p, 0>>
                          ELSE IF out = "done" THEN <<p, -1>> ELSE <<>>]
            /\ printed' = [printed EXCEPT ![p] =
                              IF out = "done" /\ ~skip
                              THEN BuildArgs(p, config, BaseSubtype, max_steps) ELSE <<>>]
            /\ readOk' = [readOk EXCEPT ![p] = ev # "read_kbi"]
            /\ interrupts' = interrupts + (IF ev \in {"read_kbi", "build_kbi"} THEN 1 ELSE 0)
            /\ swallowed' = swallowed + (IF ev = "read_kbi" THEN 1 ELSE 0)
            /\ AfterCall(p, out)
    /\ UNCHANGED <<supVars, shardVars, cmdVars, parseVars, batch, scene, config, marker, dirExists, run, todo, exitc, launched, wrote,
                   consumed, reports, prev>>

\* Lines 320-331: the command is written to the log and Popen starts the
\* child, or raises (the bare except records -1).
Launch(p) ==
    /\ MayRun(p)
    /\ st[p] = "built"
    /\ printed' = [printed EXCEPT ![p] = BuildArgs(p, config, BaseSubtype, MaxStepsOf(p))]
    /\ \E ok \in BOOLEAN :
         /\ st' = [st EXCEPT ![p] = IF ok THEN "running" ELSE "done"]
         /\ ret' = [ret EXCEPT ![p] = IF ok THEN <<>> ELSE <<p, -1>>]
         /\ launched' = [launched EXCEPT ![p] = @ + (IF ok THEN 1 ELSE 0)]
         /\ AfterCall(p, IF ok THEN "running" ELSE "done")
    /\ UNCHANGED <<supVars, shardVars, cmdVars, parseVars, batch, scene, config, marker, dirExists, run, todo, exitc, wrote, readOk,
                   consumed, reports, interrupts, swallowed, prev>>

\* Line 331: run_subprocess returns the child's exit code, or raises while it
\* supervises the child. A training child may create the output directory.
Supervise(p) ==
    /\ MayRun(p)
    /\ st[p] = "running"
    /\ \E kind \in {"exit", "exc"} \cup (IF Interruptible THEN {"kbi"} ELSE {}),
          code \in ExitCodes, mkdir \in BOOLEAN :
         LET out == IF kind = "kbi" THEN "kbi"
                    ELSE IF kind = "exit" /\ WriteDue(code) THEN "writing" ELSE "done"
         IN /\ (kind # "exit" => code = 0 /\ ~mkdir)
            /\ (dirExists => ~mkdir)
            /\ st' = [st EXCEPT ![p] = out]
            /\ exitc' = [exitc EXCEPT ![p] = IF kind = "exit" THEN <<code>> ELSE <<>>]
            /\ dirExists' = (dirExists \/ mkdir)
            /\ ret' = [ret EXCEPT ![p] =
                          IF out # "done" THEN <<>>
                          ELSE IF kind = "exit" THEN <<p, code>> ELSE <<p, -1>>]
            /\ interrupts' = interrupts + (IF kind = "kbi" THEN 1 ELSE 0)
            /\ AfterCall(p, out)
    /\ UNCHANGED <<supVars, shardVars, cmdVars, parseVars, batch, scene, config, marker, run, todo, printed, launched, wrote, readOk,
                   consumed, reports, swallowed, prev>>

\* Lines 332-334: open(path, "w") and the write of max_steps. open raises
\* FileNotFoundError when the directory is missing (the bare except keeps
\* ret_code 0); an interrupt before or after the open is re-raised.
Write(p) ==
    /\ MayRun(p)
    /\ st[p] = "writing"
    /\ \E ev \in {"none"} \cup (IF Interruptible THEN {"kbi_before_open", "kbi_after_open"} ELSE {}) :
         LET out == IF ev = "none" THEN "done" ELSE "kbi"
             opened == dirExists /\ ev # "kbi_before_open"
         IN /\ st' = [st EXCEPT ![p] = out]
            /\ marker' = [marker EXCEPT ![partition_trained_step_file_path(p)] =
                             IF ~opened THEN @
                             ELSE IF ev = "none" THEN File(FormatInt(MaxStepsOf(p)))
                             ELSE File(<<>>)]
            /\ wrote' = [wrote EXCEPT ![p] = @ + (IF opened THEN 1 ELSE 0)]
            /\ ret' = [ret EXCEPT ![p] = IF out = "done" THEN <<p, 0>> ELSE <<>>]
            /\ interrupts' = interrupts + (IF ev = "none" THEN 0 ELSE 1)
            /\ AfterCall(p, out)
    /\ UNCHANGED <<supVars, shardVars, cmdVars, parseVars, batch, scene, config, dirExists, run, todo, exitc, printed, launched, readOk,
                   consumed, reports, swallowed, prev>>

\* ------------------------------------------------------- train_partitions
\* Lines 345-369: the shard, the allowlist, and the choice of strategy. With
\* srun_args the output directory is made and a pool of len(list) workers is
\* created (ThreadPoolExecutor raises ValueError for max_workers = 0).
TrainPartitionsBegin ==
    /\ orch = "start"
    /\ LET raw == get_trainable_partition_idx_list(
                      scene, config.min_images, config.n_processes, config.process_id)
           lst == FilterAllowlist(raw, config.parts)
       IN /\ todo' = lst
          /\ dirExists' = (dirExists \/ Concurrent)
          /\ orch' = IF Concurrent
                     THEN (IF Len(lst) = 0 THEN "raised" ELSE "submit")
                     ELSE (IF Len(lst) = 0 THEN "returned" ELSE "seq")
    /\ UNCHANGED <<supVars, shardVars, cmdVars, parseVars, scene, config, marker, run, pos, st, ret,
                   exitc, printed, launched, wrote, readOk, finished, batch, consumed,
                   reports, interrupts, swallowed, prev>>

\* Lines 370-373: one tpe.submit of the list comprehension.
Submit ==
    /\ orch = "submit"
    /\ pos' = pos + 1
    /\ orch' = IF pos = Len(todo) THEN "collect" ELSE "submit"
    /\ UNCHANGED <<supVars, shardVars, cmdVars, parseVars, scene, config, marker, dirExists, run, todo,
                   st, ret, exitc, printed, launched, wrote, readOk, finished, batch,
                   consumed, reports, interrupts, swallowed, prev>>

\* Lines 375-382: the loop asks as_completed for its first future, and
\* as_completed notes which futures are done already.
AsCompletedBegin ==
    /\ orch = "collect"
    /\ batch' = Range(finished)
    /\ orch' = "drain"
    /\ UNCHANGED <<supVars, shardVars, cmdVars, parseVars, scene, config, marker, dirExists, run, todo,
                   pos, st, ret, exitc, printed, launched, wrote, readOk, finished,
                   consumed, reports, interrupts, swallowed, prev>>

\* Mutant: any done future yielded next.
NextCompletedAny == Range(finished) \ Range(consumed)

\* The futures as_completed may yield next: those done before it began, in
\* the order of a set; after them the others, each in the order it completed.
NextCompleted ==
    IF batch \ Range(consumed) # {}
    THEN batch \ Range(consumed)
    ELSE LET rest == FilterSeq(finished, Partitions \ Range(consumed))
         IN  IF rest = <<>> THEN {} ELSE {Head(rest)}

\* Lines 382-398: one iteration of the loop over as_completed(futures).
Drain(p) ==
    /\ orch = "drain"
    /\ p \in NextCompleted
    /\ consumed' = Append(consumed, p)
    /\ reports' = IF st[p] = "done"
                  THEN Append(reports, [idx |-> p, id |-> get_partition_id_str(p),
                                        code |-> ret[p][2],
                                        count |-> Len(consumed) + 1, total |-> Len(todo)])
                  ELSE reports
    /\ orch' = IF st[p] = "kbi" THEN "exiting"
               ELSE IF Len(consumed) + 1 = Len(todo) THEN "returned" ELSE "drain"
    /\ UNCHANGED <<supVars, shardVars, cmdVars, parseVars, scene, config, marker, dirExists, run, todo,
                   pos, st, ret, exitc, printed, launched, wrote, readOk, finished, batch,
                   interrupts, swallowed, prev>>

\* A KeyboardInterrupt delivered to the main thread while it waits in
\* as_completed: it leaves the loop and reaches the pool's __exit__.
MainInterrupt ==
    /\ orch = "drain"
    /\ Interruptible
    /\ interrupts' = interrupts + 1
    /\ orch' = "exiting"
    /\ UNCHANGED <<supVars, shardVars, cmdVars, parseVars, scene, config, marker, dirExists, run, todo,
                   pos, st, ret, exitc, printed, launched, wrote, readOk, finished, batch,
                   consumed, reports, swallowed, prev>>

\* ThreadPoolExecutor.__exit__: shutdown(wait=True) joins every worker, then
\* the KeyboardInterrupt leaves train_partitions.
PoolExit ==
    /\ orch = "exiting"
    /\ \A p \in Range(todo) : st[p] \in Terminal
    /\ orch' = "interrupted"
    /\ UNCHANGED <<supVars, shardVars, cmdVars, parseVars, scene, config, marker, dirExists, run, todo,
                   pos, st, ret, exitc, printed, launched, wrote, readOk, finished, batch,
                   consumed, reports, interrupts, swallowed, prev>>

Ended == orch \in {"returned", "raised", "interrupted"}

\* The states of a partition (spec 4.7) as the variables show them.
Skipped(p) == st[p] = "done" /\ ret[p] = <<p, 0>> /\ launched[p] = 0
Succeeded(p) == st[p] = "done" /\ ret[p] = <<p, 0>> /\ launched[p] > 0
Failed(p) ==
    \/ st[p] = "raised"
    \/ st[p] = "done" /\ ret[p][2] # 0 /\ ~config.dry_run

\* The operator starts the script again, with the same configuration or with
\* other --extra-epoches or --dry-run; the markers and the directory stay as
\* they are.
NextRun ==
    /\ Ended
    /\ run < MaxRuns
    /\ run' = run + 1
    /\ \E e \in ExtraEpochs, d \in BOOLEAN :
         config' = [config EXCEPT !.extra_epoches = e, !.dry_run = d]
    /\ prev' = [any |-> TRUE, how |-> orch, interrupts |-> interrupts,
                dry_run |-> config.dry_run, extra_epoches |-> config.extra_epoches,
                attempted |-> {p \in Partitions : st[p] # "pending" /\ ~Skipped(p)},
                zero |-> {p \in Partitions : exitc[p] = <<0>>},
                failed |-> {p \in Partitions : Failed(p)},
                read |-> {p \in Partitions : readOk[p]}]
    /\ orch' = "start"
    /\ todo' = <<>>
    /\ pos' = 1
    /\ st' = Fresh("pending")
    /\ ret' = Fresh(<<>>)
    /\ exitc' = Fresh(<<>>)
    /\ printed' = Fresh(<<>>)
    /\ launched' = Fresh(0)
    /\ wrote' = Fresh(0)
    /\ readOk' = Fresh(FALSE)
    /\ finished' = <<>>
    /\ batch' = {}
    /\ consumed' = <<>>
    /\ reports' = <<>>
    /\ interrupts' = 0
    /\ swallowed' = 0
    /\ UNCHANGED <<supVars, shardVars, cmdVars, parseVars, scene, marker, dirExists>>

\* One train_partitions invocation, from any of the configurations.
\* ---------------------------------------------------------- run_subprocess

Streams == {"stdout", "stderr"}

\* A byte of the child's output is written as an integer: 0 is the newline,
\* k > 0 is the valid UTF-8 body of the k-th line, k < 0 is a body that is not
\* valid UTF-8.
IsNewline(u) == u = 0

IsInvalid(u) == u < 0

\* What a child writes to one stream: n lines, the last with its newline or
\* not, the first with an undecodable body or not.
RECURSIVE StreamContent(_, _, _)
StreamContent(n, lastNewline, firstInvalid) ==
    IF n = 0 THEN <<>>
    ELSE StreamContent(n - 1, TRUE, firstInvalid)
         \o <<IF n = 1 /\ firstInvalid THEN 0 - 1 ELSE n>>
         \o (IF lastNewline THEN <<0>> ELSE <<>>)

Contents ==
    { StreamContent(n, nl, bad) : n \in 0..MaxLines, nl \in BOOLEAN, bad \in BOOLEAN }

\* Position of the first newline of a byte sequence, 0 when it has none.
RECURSIVE FirstNewline(_, _)
FirstNewline(bytes, i) ==
    IF i > Len(bytes) THEN 0
    ELSE IF IsNewline(bytes[i]) THEN i
    ELSE FirstNewline(bytes, i + 1)

HasNewline(bytes) == FirstNewline(bytes, 1) > 0

\* line.decode("utf-8") raises UnicodeDecodeError on an invalid byte.
Decodable(line) == \A i \in 1..Len(line) : ~IsInvalid(line[i])

\* str.rstrip("\n"): every trailing newline removed.
RECURSIVE RStripNewline(_)
RStripNewline(line) ==
    IF line # <<>> /\ IsNewline(line[Len(line)])
    THEN RStripNewline(SubSeq(line, 1, Len(line) - 1))
    ELSE line

\* The lines of a stream as readline() cuts them, each decoded and stripped.
RECURSIVE SplitLines(_)
SplitLines(bytes) ==
    IF bytes = <<>> THEN <<>>
    ELSE LET i == FirstNewline(bytes, 1)
             n == IF i = 0 THEN Len(bytes) ELSE i
         IN  <<RStripNewline(SubSeq(bytes, 1, n))>>
             \o SplitLines(SubSeq(bytes, n + 1, Len(bytes)))

\* The texts given to output_redirect that came from stream s, in order.
RECURSIVE Delivered(_, _)
Delivered(lines, s) ==
    IF lines = <<>> THEN <<>>
    ELSE (IF Head(lines).stream = s THEN <<Head(lines).text>> ELSE <<>>)
         \o Delivered(Tail(lines), s)

\* Popen(...) has returned and both streams are registered.
InitSup ==
    /\ content \in [Streams -> Contents]
    /\ left = content
    /\ want = "none"
    /\ alive = TRUE
    /\ status \in ExitCodes
    /\ isOpen = [s \in Streams |-> TRUE]
    /\ pipe = [s \in Streams |-> <<>>]
    /\ rbuf = [s \in Streams |-> <<>>]
    /\ reg = Streams
    /\ events = <<>>
    /\ spc = "select"
    /\ sink = <<>>
    /\ returncode = <<>>

\* No subprocess is being supervised.
IdleSup ==
    /\ content = [s \in Streams |-> <<>>]
    /\ left = content
    /\ want = "none"
    /\ alive = FALSE
    /\ status = 0
    /\ isOpen = [s \in Streams |-> FALSE]
    /\ pipe = [s \in Streams |-> <<>>]
    /\ rbuf = [s \in Streams |-> <<>>]
    /\ reg = {}
    /\ events = <<>>
    /\ spc = "idle"
    /\ sink = <<>>
    /\ returncode = <<>>

\* The child starts a write(2) of its next byte to stream s.
ChildBegin(s) ==
    /\ alive /\ want = "none"
    /\ isOpen[s] /\ left[s] # <<>>
    /\ want' = s
    /\ UNCHANGED <<orchVars, shardVars, cmdVars, parseVars, content, left, alive, status, isOpen, pipe, rbuf, reg,
                   events, spc, sink, returncode>>

\* The write completes once the pipe has room; until then the child is blocked.
ChildWrite(s) ==
    /\ alive /\ want = s
    /\ Len(pipe[s]) < PipeCap
    /\ pipe' = [pipe EXCEPT ![s] = Append(@, Head(left[s]))]
    /\ left' = [left EXCEPT ![s] = Tail(@)]
    /\ want' = "none"
    /\ UNCHANGED <<orchVars, shardVars, cmdVars, parseVars, content, alive, status, isOpen, rbuf, reg, events, spc,
                   sink, returncode>>

\* The child closes a stream it has finished with and keeps running.
ChildClose(s) ==
    /\ alive /\ want = "none"
    /\ isOpen[s] /\ left[s] = <<>>
    /\ isOpen' = [isOpen EXCEPT ![s] = FALSE]
    /\ UNCHANGED <<orchVars, shardVars, cmdVars, parseVars, content, left, want, alive, status, pipe, rbuf, reg,
                   events, spc, sink, returncode>>

\* The child exits, which closes whatever it still had open.
ChildExit ==
    /\ alive /\ want = "none"
    /\ \A s \in Streams : left[s] = <<>>
    /\ alive' = FALSE
    /\ isOpen' = [s \in Streams |-> FALSE]
    /\ UNCHANGED <<orchVars, shardVars, cmdVars, parseVars, content, left, want, status, pipe, rbuf, reg, events,
                   spc, sink, returncode>>

\* select() reports a registered stream when its file descriptor is readable:
\* the pipe holds bytes or is at end of file.  It does not see rbuf.
Readable(s) == pipe[s] # <<>> \/ ~isOpen[s]

\* while True: leave when nothing is registered, else events = sel.select().
SupSelect ==
    /\ spc = "select"
    /\ IF reg = {}
       THEN /\ spc' = "wait"
            /\ UNCHANGED events
       ELSE /\ \E ready \in SUBSET reg :
                /\ ready # {}
                /\ ready = {s \in reg : Readable(s)}
                /\ \E order \in [1..Cardinality(ready) -> ready] :
                     /\ Range(order) = ready
                     /\ events' = order
            /\ spc' = "events"
    /\ UNCHANGED <<orchVars, shardVars, cmdVars, parseVars, content, left, want, alive, status, isOpen, pipe, rbuf,
                   reg, sink, returncode>>

\* Inside readline(): rbuf has no newline, so the reader does a blocking
\* read(2) that takes what the pipe holds.
SupFill ==
    /\ spc = "events"
    /\ LET s == Head(events) IN
         /\ ~HasNewline(rbuf[s])
         /\ pipe[s] # <<>>
         /\ rbuf' = [rbuf EXCEPT ![s] = @ \o pipe[s]]
         /\ pipe' = [pipe EXCEPT ![s] = <<>>]
    /\ UNCHANGED <<orchVars, shardVars, cmdVars, parseVars, content, left, want, alive, status, isOpen, reg, events,
                   spc, sink, returncode>>

\* readline() has its line: through the first newline of rbuf, or at end of
\* file whatever is left.
LineReady(s) == HasNewline(rbuf[s]) \/ (pipe[s] = <<>> /\ ~isOpen[s])

\* readline() is blocked in read(2).
ReadlineBlocked(s) == ~HasNewline(rbuf[s]) /\ pipe[s] = <<>> /\ isOpen[s]

\* One turn of "for key, mask in events": readline() returns and the line is
\* unregistered on, decoded, stripped and handed over.
SupReadline ==
    /\ spc = "events"
    /\ LET s == Head(events)
           i == FirstNewline(rbuf[s], 1)
           n == IF i = 0 THEN Len(rbuf[s]) ELSE i
           line == SubSeq(rbuf[s], 1, n)
           after == IF Tail(events) = <<>> THEN "select" ELSE "events"
       IN
         /\ LineReady(s)
         /\ rbuf' = [rbuf EXCEPT ![s] = SubSeq(@, n + 1, Len(@))]
         /\ IF Len(line) = 0
            THEN /\ reg' = reg \ {s}
                 /\ events' = Tail(events)
                 /\ spc' = after
                 /\ UNCHANGED sink
            ELSE IF ~Decodable(line)
            THEN /\ spc' = "raised"
                 /\ UNCHANGED <<reg, events, sink>>
            ELSE /\ sink' = Append(sink, [stream |-> s, text |-> RStripNewline(line)])
                 /\ events' = Tail(events)
                 /\ spc' = after
                 /\ UNCHANGED reg
    /\ UNCHANGED <<orchVars, shardVars, cmdVars, parseVars, content, left, want, alive, status, isOpen, pipe,
                   returncode>>

\* p.wait(); return p.returncode
SupWait ==
    /\ spc = "wait"
    /\ ~alive
    /\ spc' = "returned"
    /\ returncode' = <<status>>
    /\ UNCHANGED <<orchVars, shardVars, cmdVars, parseVars, content, left, want, alive, status, isOpen, pipe, rbuf,
                   reg, events, sink>>

\* ------------------------------------- get_trainable_partition_idx_list calls

\* The partition indexes the shards are computed on: per partition, the first
\* k images by location for every k, and no image or every image by visibility.
ShardScenes ==
    { [loc |-> [p \in Partitions |-> 1 .. l[p]],
       vis |-> [p \in Partitions |-> IF v[p] THEN Images ELSE {}]] :
        l \in [Partitions -> 0 .. NumImages], v \in [Partitions -> BOOLEAN] }

Workers == 0 .. config.n_processes - 1

\* --parts: not given, given with no id, with an id of no partition, with the
\* first partition's id and a foreign one, with the last partition's id, with
\* every partition's id.
Allowlists ==
    {NoParts} \cup
    { [given |-> TRUE, ids |-> ids] :
        ids \in { {}, {"zzz"}, {get_partition_id_str(0), "zzz"},
                  {get_partition_id_str(NumPartitions - 1)},
                  {get_partition_id_str(p) : p \in Partitions} } }

InitShard ==
    /\ shardOf = [w \in 0 .. MaxWorkers - 1 |-> <<>>]
    /\ finalOf = [w \in 0 .. MaxWorkers - 1 |-> <<>>]
    /\ called = {}

IdleShard == InitShard

\* Lines 345-357 as worker w of config.n_processes: the shard, then the
\* allowlist loop over it.
ShardResult(w) ==
    LET raw == get_trainable_partition_idx_list(scene, config.min_images,
                                                config.n_processes, w)
    IN  [raw |-> raw, final |-> FilterAllowlist(raw, config.parts)]

\* Worker w of config.n_processes computes its list.
ShardCall(w) ==
    /\ w \in Workers
    /\ w \notin called
    /\ shardOf' = [shardOf EXCEPT ![w] = ShardResult(w).raw]
    /\ finalOf' = [finalOf EXCEPT ![w] = ShardResult(w).final]
    /\ called' = called \cup {w}
    /\ UNCHANGED <<orchVars, supVars, cmdVars, parseVars>>

\* A worker computes its list again.
ShardRecall(w) ==
    /\ w \in called
    /\ shardOf' = [shardOf EXCEPT ![w] = ShardResult(w).raw]
    /\ finalOf' = [finalOf EXCEPT ![w] = ShardResult(w).final]
    /\ UNCHANGED <<called, orchVars, supVars, cmdVars, parseVars>>

\* ------------------------------------------------- the command builder alone

\* What the hooks of a subclass return: a default dataparser name or
\* NotImplementedError, and each argument hook an empty list or one argument.
Subtypes ==
    { [dataparser |-> [supported |-> d, name |-> "Colmap"],
       overridable |-> ov, dataset |-> ds, final |-> fin] :
        d \in BOOLEAN, ov \in {<<>>, <<"--ov">>}, ds \in {<<>>, <<"--ds">>},
        fin \in {<<>>, <<"--fin">>} }

CmdConfigs ==
    { [Config(TRUE, s, Sharding(1, 0, 1, NoParts)) EXCEPT
          !.config_file = f, !.name_suffix = x, !.extra_epoches = e] :
        s \in {<<>>, <<"--gres=gpu:1">>},
        f \in {[given |-> FALSE, path |-> ""], [given |-> TRUE, path |-> "cfg.yaml"]},
        x \in {"", "-v2"}, e \in ExtraEpochs }

InitCmd ==
    /\ subtype \in Subtypes
    /\ cmd = Fresh(<<>>)

IdleCmd ==
    /\ subtype = BaseSubtype
    /\ cmd = Fresh(<<>>)

\* Lines 270-314 for partition p.
BuildCommand(p) ==
    /\ cmd[p] = <<>>
    /\ cmd' = [cmd EXCEPT ![p] = BuildArgs(p, config, subtype, MaxStepsOf(p))]
    /\ UNCHANGED <<orchVars, supVars, shardVars, parseVars, subtype>>

\* ------------------------------------------------- parse_scalable_params
MaxParses == 2

\* A dict as a function on its keys; d.update(e) and d[k] = v.
EmptyDict == [k \in {} |-> 0]
Update(d, e) == [k \in DOMAIN d \cup DOMAIN e |-> IF k \in DOMAIN e THEN e[k] ELSE d[k]]
SetItem(d, k, v) == [j \in DOMAIN d \cup {k} |-> IF j = k THEN v ELSE d[j]]

\* The built-in defaults of module auto_hyper_parameter, as imported.
BuiltinScalable == SetItem(EmptyDict, "a", 1)
BuiltinExtraEpoch == <<"a">>

\* What yaml.safe_load returns for --scalable-config: the keys present and
\* their values.
YamlDict(keys, scalable, extra, no_default) ==
    [keys |-> keys, scalable |-> scalable, extra_epoch_scalable |-> extra,
     no_default |-> no_default]

NoConfig == [given |-> FALSE, exists |-> FALSE, yaml |-> YamlDict({}, EmptyDict, <<>>, FALSE)]
ConfigFile(y) == [given |-> TRUE, exists |-> TRUE, yaml |-> y]

\* The --scalable-config files of the invocations checked: none, a missing
\* one, one that overrides a built-in value and adds a name, one that drops
\* the defaults, one with a key that is not allowed.
ScalableConfigs ==
    { NoConfig,
      [NoConfig EXCEPT !.given = TRUE],
      ConfigFile(YamlDict({"scalable", "extra_epoch_scalable"},
                          SetItem(EmptyDict, "a", 3), <<"b">>, FALSE)),
      ConfigFile(YamlDict({"no_default", "scalable"}, SetItem(EmptyDict, "b", 4), <<>>, TRUE)),
      ConfigFile(YamlDict({"scalable", "other"}, SetItem(EmptyDict, "b", 4), <<>>, FALSE)) }

\* The --scalable-params token lists checked: none, name=value, and a valid
\* token followed by one without "=".
InlineParams == { <<>>, << <<"b", "=", "5">> >>, << <<"a", "=", "7">>, <<"b">> >> }

ParseArgs ==
    [no_default_scalable : BOOLEAN, scalable_config : ScalableConfigs,
     scalable_params : InlineParams, extra_epoch_scalable_params : {<<>>, <<"c">>}]

RECURSIVE IndexOfEq(_, _)
\* The position of the first "=" of a token, 0 when it has none.
IndexOfEq(t, i) ==
    IF i > Len(t) THEN 0 ELSE IF t[i] = "=" THEN i ELSE IndexOfEq(t, i + 1)

\* Lines 96-97 for one token: name, value = i.split("=", 1); int(value).
\* A token without "=" fails to unpack, a value that is not an integer
\* fails in int(): ValueError either way.
ParseToken(t) ==
    LET k == IndexOfEq(t, 1)
        v == IF k = 0 THEN [ok |-> FALSE, value |-> 0]
             ELSE ParseInt(SubSeq(t, k + 1, Len(t)))
    IN  [ok |-> k # 0 /\ v.ok, name |-> SubSeq(t, 1, k - 1), value |-> v.value]

RECURSIVE InlineLoop(_, _)
\* Lines 95-98: the loop over args.scalable_params on dict d; it stops at
\* the first token that raises, the items set so far staying in d.
InlineLoop(d, tokens) ==
    IF tokens = <<>> THEN [raised |-> FALSE, dict |-> d]
    ELSE LET t == ParseToken(Head(tokens))
         IN  IF ~t.ok THEN [raised |-> TRUE, dict |-> d]
             ELSE InlineLoop(SetItem(d, t.name[1], t.value), Tail(tokens))

\* Lines 71-101 on the built-in objects G = [dict, list] with arguments a:
\* whether it raised, the pair it returned, and the built-in objects
\* afterwards. The locals name the built-in objects themselves (lines 74-75)
\* unless --no-default-scalable (76-78) or the file's no_default (88-90)
\* rebinds them to a new {} and []; update (92), += (93, 99) and the item
\* assignment (98) change whatever object the local names, in place.
parse_scalable_params(G, a) ==
    LET cfg == a.scalable_config
        y == cfg.yaml
        badOpen == cfg.given /\ ~cfg.exists
        badKey == cfg.given /\ cfg.exists
                  /\ ~(y.keys \subseteq {"scalable", "extra_epoch_scalable", "no_default"})
        fresh == a.no_default_scalable
                 \/ (cfg.given /\ "no_default" \in y.keys /\ y.no_default)
        d0 == IF fresh THEN EmptyDict ELSE G.dict
        l0 == IF fresh THEN <<>> ELSE G.list
        d1 == IF cfg.given /\ "scalable" \in y.keys THEN Update(d0, y.scalable) ELSE d0
        l1 == IF cfg.given /\ "extra_epoch_scalable" \in y.keys
              THEN l0 \o y.extra_epoch_scalable ELSE l0
        loop == InlineLoop(d1, a.scalable_params)
        l2 == l1 \o a.extra_epoch_scalable_params
    IN  IF badOpen \/ badKey
        THEN [raised |-> TRUE, dict |-> EmptyDict, list |-> <<>>, globals |-> G]
        ELSE IF loop.raised
        THEN [raised |-> TRUE, dict |-> EmptyDict, list |-> <<>>,
              globals |-> IF fresh THEN G ELSE [dict |-> loop.dict, list |-> l1]]
        ELSE [raised |-> FALSE, dict |-> loop.dict, list |-> l2,
              globals |-> IF fresh THEN G ELSE [dict |-> loop.dict, list |-> l2]]

Builtins == [dict |-> BuiltinScalable, list |-> BuiltinExtraEpoch]
Globals == [dict |-> SCALABEL_PARAMS, list |-> EXTRA_EPOCH_SCALABLE_STEP_PARAMS]
NotParsed == [raised |-> FALSE, dict |-> EmptyDict, list |-> <<>>]

\* The module as imported; no invocation yet.
InitParse ==
    /\ SCALABEL_PARAMS = BuiltinScalable
    /\ EXTRA_EPOCH_SCALABLE_STEP_PARAMS = BuiltinExtraEpoch
    /\ args \in ParseArgs
    /\ parsed = NotParsed
    /\ parses = 0

IdleParse ==
    /\ SCALABEL_PARAMS = BuiltinScalable
    /\ EXTRA_EPOCH_SCALABLE_STEP_PARAMS = BuiltinExtraEpoch
    /\ args = [no_default_scalable |-> FALSE, scalable_config |-> NoConfig,
               scalable_params |-> <<>>, extra_epoch_scalable_params |-> <<>>]
    /\ parsed = NotParsed
    /\ parses = 0

\* One invocation of parse_scalable_params(a) in this interpreter.
Parse(a) ==
    /\ parses < MaxParses
    /\ LET r == parse_scalable_params(Globals, a)
       IN  /\ parsed' = [raised |-> r.raised, dict |-> r.dict, list |-> r.list]
           /\ SCALABEL_PARAMS' = r.globals.dict
           /\ EXTRA_EPOCH_SCALABLE_STEP_PARAMS' = r.globals.list
    /\ args' = a
    /\ parses' = parses + 1
    /\ UNCHANGED <<orchVars, supVars, shardVars, cmdVars>>

\* ------------------------------------------------------------ specifications

\* The orchestrator: one train_partitions invocation.
Init == InitOrch /\ IdleSup /\ IdleShard /\ IdleCmd /\ IdleParse

Next ==
    \/ TrainPartitionsBegin
    \/ \E p \in Partitions : Start(p)
    \/ \E p \in Partitions : Launch(p)
    \/ \E p \in Partitions : Supervise(p)
    \/ \E p \in Partitions : Write(p)
    \/ Submit
    \/ AsCompletedBegin
    \/ \E p \in Partitions : Drain(p)
    \/ MainInterrupt
    \/ PoolExit

Spec == Init /\ [][Next]_vars

\* Successive invocations over the same output directory, by the first of
\* MaxWorkers workers with no filter, in the sequential strategy.
InitResume ==
    /\ InitOrch /\ IdleSup /\ IdleShard /\ IdleCmd /\ IdleParse
    /\ config.n_processes = MaxWorkers
    /\ config.process_id = 0
    /\ config.min_images = 1
    /\ config.parts = NoParts
    /\ config.srun_args = <<>>

NextResume ==
    \/ TrainPartitionsBegin
    \/ \E p \in Partitions : Start(p)
    \/ \E p \in Partitions : Launch(p)
    \/ \E p \in Partitions : Supervise(p)
    \/ \E p \in Partitions : Write(p)
    \/ NextRun

SpecResume == InitResume /\ [][NextResume]_vars

\* One run_subprocess call and its child.
InitSupervisor == IdleOrch /\ InitSup /\ IdleShard /\ IdleCmd /\ IdleParse

NextSup ==
    \/ \E s \in Streams : ChildBegin(s)
    \/ \E s \in Streams : ChildWrite(s)
    \/ \E s \in Streams : ChildClose(s)
    \/ ChildExit
    \/ SupSelect
    \/ SupFill
    \/ SupReadline
    \/ SupWait

SpecSup == InitSupervisor /\ [][NextSup]_vars

\* The same with both processes scheduled: the child, when it can take a
\* step, takes one, and so does the thread in run_subprocess.
ChildStep ==
    \/ \E s \in Streams : ChildBegin(s)
    \/ \E s \in Streams : ChildWrite(s)
    \/ \E s \in Streams : ChildClose(s)
    \/ ChildExit

SupStep == SupSelect \/ SupFill \/ SupReadline \/ SupWait

SpecSupFair == SpecSup /\ WF_vars(ChildStep) /\ WF_vars(SupStep)

\* The shards of every worker of a layout, over the partition indexes.
InitSharding ==
    /\ scene \in ShardScenes
    /\ config \in { Config(FALSE, <<>>, Sharding(n, 0, m, parts)) :
                      n \in 1 .. MaxWorkers, m \in 0 .. NumImages + 1,
                      parts \in Allowlists }
    /\ dirExists = TRUE
    /\ marker = Disk(NoFile)
    /\ run = 1
    /\ prev = NoPrev
    /\ InitRun
    /\ IdleSup /\ InitShard /\ IdleCmd /\ IdleParse

NextShard ==
    \/ \E w \in 0 .. MaxWorkers - 1 : ShardCall(w)
    \/ \E w \in 0 .. MaxWorkers - 1 : ShardRecall(w)

SpecShard == InitSharding /\ [][NextShard]_vars

\* Invocations of parse_scalable_params in one interpreter.
InitParsing ==
    /\ IdleOrch /\ IdleSup /\ IdleShard /\ IdleCmd /\ InitParse

NextParse == \E a \in ParseArgs : Parse(a)

SpecParse == InitParsing /\ [][NextParse]_vars

\* The command vectors of every partition, over subclasses and configurations.
InitCommand ==
    /\ scene = DefaultScene
    /\ config \in CmdConfigs
    /\ dirExists = TRUE
    /\ marker = Disk(NoFile)
    /\ run = 1
    /\ prev = NoPrev
    /\ InitRun
    /\ IdleSup /\ IdleShard /\ InitCmd /\ IdleParse

NextCmd == \E p \in Partitions : BuildCommand(p)

SpecCmd == InitCommand /\ [][NextCmd]_vars

\* ================================================================ claims

\* C1 (idempotence of resumption): when the previous run was not a dry run,
\* returned with no interrupt, and the child of every partition it attempted
\* exited with code 0, a run with the same configuration and no interrupt
\* launches no child process and skips every partition it processes.
C1_SecondRunSkipsAll ==
    ( /\ prev.any /\ prev.how = "returned" /\ prev.interrupts = 0
      /\ ~prev.dry_run /\ prev.attempted \subseteq prev.zero
      /\ config.dry_run = prev.dry_run /\ config.extra_epoches = prev.extra_epoches
      /\ interrupts = 0 )
    => \A p \in Partitions :
         /\ launched[p] = 0
         /\ (st[p] # "pending" => Skipped(p))

C3_FailureIsolation == \A p \in Partitions : st[p] # "raised"

\* C4 (cancellation is never swallowed): once a KeyboardInterrupt has been
\* raised in a run, the sequential loop has been left by it, and the
\* concurrent run is leaving or has left by it and never returns normally.
C4_CancellationNeverSwallowed ==
    interrupts > 0 =>
        IF Concurrent THEN orch \in {"drain", "exiting", "interrupted"}
        ELSE orch = "interrupted"

\* C5 as stated (dry run shows every command): in a dry run no child is
\* launched, no marker is written, and every partition whose call returned
\* had its full command displayed, whatever its marker holds.
C5_DryRunShowsEveryCommand ==
    config.dry_run =>
        \A p \in Partitions :
            /\ launched[p] = 0
            /\ wrote[p] = 0
            /\ (st[p] = "done" =>
                    printed[p] = BuildArgs(p, config, BaseSubtype, MaxStepsOf(p)))

\* C5 amended: in a dry run no child is launched and no marker is written; a
\* partition whose marker holds an integer >= max_steps is skipped with
\* outcome (p, 0) and no command displayed; every other partition whose call
\* returned had its full command, scaled budget included, displayed and has
\* outcome (p, -1).
C5_DryRunShowsUnskippedCommands ==
    config.dry_run =>
        \A p \in Partitions :
            /\ launched[p] = 0
            /\ wrote[p] = 0
            /\ (st[p] = "done" =>
                  LET rd == ReadLedger(p, FALSE)
                      recorded == rd.ok /\ rd.value >= MaxStepsOf(p)
                  IN IF Skipped(p)
                     THEN recorded /\ printed[p] = <<>>
                     ELSE /\ (readOk[p] => ~recorded)
                          /\ ret[p] = <<p, -1>>
                          /\ printed[p] = BuildArgs(p, config, BaseSubtype, MaxStepsOf(p)))

\* C5 witness: a dry run that skipped one partition without a command and
\* displayed the command of another.
C5_Witness ==
    /\ config.dry_run
    /\ \E p, q \in Partitions :
        /\ Skipped(p) /\ printed[p] = <<>>
        /\ st[q] = "done" /\ ret[q] = <<q, -1>> /\ printed[q] # <<>>

\* C6 (ledger write on success): a call that launched a child and returned
\* (p, 0) leaves the marker holding exactly max_steps.
C6_LedgerWriteOnSuccess ==
    \A p \in Partitions :
        Succeeded(p) => MarkerOf(p) = File(FormatInt(MaxStepsOf(p)))

\* C7 (the skip decision is a >= comparison): in every step that takes a
\* call through its marker read without an exception in the read, the call
\* returns (p, 0) with no command and no launch exactly when the marker file
\* exists and holds an integer >= max_steps; a marker "10\n" skips a budget
\* of 10 and a marker "6" does not.
C7_SkipIffRecordedAtLeastBudget ==
    [][\A p \in Partitions :
         (st[p] = "pending" /\ st'[p] # "pending" /\ readOk'[p]) =>
            LET v == ParseInt(MarkerOf(p).text)
                skipped == /\ st'[p] = "done" /\ ret'[p] = <<p, 0>>
                           /\ printed'[p] = <<>> /\ launched'[p] = 0
            IN /\ skipped <=> (MarkerOf(p).exists /\ v.ok /\ v.value >= MaxStepsOf(p))
               /\ (MarkerOf(p) = File(<<"1", "0", "\n">>) /\ MaxStepsOf(p) = 10 => skipped)
               /\ (MarkerOf(p) = File(<<"6">>) /\ MaxStepsOf(p) = 10 => ~skipped)]_vars

\* C7 witness: a partition whose marker was written by the previous run is
\* attempted because more extra epochs raised its budget, while another is
\* skipped on a marker equal to its budget.
C7_Witness ==
    \E p, q \in Partitions :
        /\ prev.any /\ p \in prev.zero /\ config.extra_epoches > prev.extra_epoches
        /\ MarkerOf(p).exists /\ ParseInt(MarkerOf(p).text).ok
        /\ ParseInt(MarkerOf(p).text).value < MaxStepsOf(p)
        /\ st[p] = "running"
        /\ Skipped(q) /\ ParseInt(MarkerOf(q).text).value = MaxStepsOf(q)

\* run_subprocess is blocked in readline() on one stream for good: the
\* child, which alone could complete that line, is itself blocked writing to
\* the other stream, whose pipe is full of bytes nobody reads.
BlockedForever ==
    /\ spc = "events"
    /\ ReadlineBlocked(Head(events))
    /\ alive
    /\ want \in Streams \ {Head(events)}
    /\ Len(pipe[want]) >= PipeCap

\* C8 (output delivery by run_subprocess): when run_subprocess has returned,
\* the sink holds, for each stream, exactly the lines the child wrote to it,
\* once each and in the order written, the child has exited and the value
\* returned is its exit status; and run_subprocess is never blocked forever
\* on one stream while the other has undelivered data.
C8_OutputDelivery ==
    /\ spc = "returned" =>
          /\ \A s \in Streams : Delivered(sink, s) = SplitLines(content[s])
          /\ ~alive
          /\ returncode = <<status>>
    /\ ~BlockedForever

\* C9 (no fail-fast): when a run with no interrupt has ended, every
\* partition of the list was processed once and is skipped, succeeded or
\* failed, and no other partition was touched.
C9_NoFailFast ==
    (Ended /\ interrupts = 0) =>
        \A p \in Partitions :
            IF p \in Range(todo)
            THEN st[p] \in {"done", "raised"} /\ launched[p] <= 1
            ELSE st[p] = "pending" /\ launched[p] = 0

\* The partitions get_trainable_partition_idx_list is to share out.
Eligible == {p \in Partitions : Cardinality(scene.loc[p]) >= config.min_images}

\* C10 (sharding completeness and disjointness): once every worker
\* 0..n_processes-1 has computed its shard over the same partition index and
\* min_images, no partition is in two shards or twice in one, and the shards
\* together hold exactly the partitions whose location-based image count is
\* at least min_images.
C10_ShardsPartitionEligible ==
    called = Workers =>
      /\ \A w \in Workers :
           \A i, j \in 1 .. Len(shardOf[w]) : i # j => shardOf[w][i] # shardOf[w][j]
      /\ \A v, w \in Workers : v # w => Range(shardOf[v]) \cap Range(shardOf[w]) = {}
      /\ UNION {Range(shardOf[w]) : w \in Workers} = Eligible

C10_Witness ==
    /\ called = Workers
    /\ config.n_processes = MaxWorkers
    /\ \A w \in Workers : shardOf[w] # <<>>
    /\ Eligible # Partitions
    /\ \E p \in Eligible : Cardinality(scene.loc[p]) = config.min_images


\* C11 (minimum-image exclusion): a partition whose location-based image
\* count is below min_images is in no worker's trainable list and in no
\* worker's final filtered list, whatever its visibility-based count and
\* whether or not the allowlist names it.
C11_BelowMinImagesExcluded ==
    \A w \in called : \A p \in Partitions :
        Cardinality(scene.loc[p]) < config.min_images =>
            /\ p \notin Range(shardOf[w])
            /\ p \notin Range(finalOf[w])

\* C11 witness: every worker has its list, and a partition the allowlist
\* names has enough images only when visibility is counted.
C11_Witness ==
    /\ called = Workers
    /\ \E p \in Partitions :
         /\ Cardinality(scene.loc[p]) < config.min_images
         /\ Cardinality(scene.loc[p] \cup scene.vis[p]) >= config.min_images
         /\ config.parts.given
         /\ get_partition_id_str(p) \in config.parts.ids
    /\ \E w \in Workers : finalOf[w] # <<>>

\* Position of partition p in a list without duplicates that holds it.
IndexIn(list, p) == CHOOSE i \in 1 .. Len(list) : list[i] = p

\* C12 (the allowlist is a pass-through filter): with no allowlist the final
\* list is the shard; with one, the final list holds exactly the partitions
\* of the shard whose id string is listed, once each and in shard order, and
\* a listed id that is no partition's changes nothing.
C12_AllowlistPassThrough ==
    \A w \in called :
        IF ~config.parts.given THEN finalOf[w] = shardOf[w]
        ELSE /\ Range(finalOf[w]) =
                  {p \in Range(shardOf[w]) : get_partition_id_str(p) \in config.parts.ids}
             /\ \A i, j \in 1 .. Len(finalOf[w]) :
                  i < j => IndexIn(shardOf[w], finalOf[w][i]) < IndexIn(shardOf[w], finalOf[w][j])

\* C12 witness: an allowlist with a partition's id and a foreign id cuts a
\* shard of several partitions down to that partition.
C12_Witness ==
    /\ config.parts.given
    /\ \E id \in config.parts.ids : \A p \in Partitions : get_partition_id_str(p) # id
    /\ \E w \in called : Len(shardOf[w]) > 1 /\ Len(finalOf[w]) = 1

\* The child of partition p has been started and not yet waited for: it is
\* being supervised, or an interrupt left run_subprocess before p.wait().
ChildAlive(p) == launched[p] > 0 /\ exitc[p] = <<>> /\ st[p] \in {"running", "kbi"}

\* C13 (sequential strategy ordering): without srun_args, a partition of the
\* list is attempted only when every partition before it in the list has
\* completed its attempt, marker write included; no partition outside the
\* list is attempted; and at most one child process is alive.
C13_SequentialOrder ==
    ~Concurrent =>
      /\ \A i, j \in 1 .. Len(todo) :
           (i < j /\ st[todo[j]] # "pending") => st[todo[i]] = "done"
      /\ \A p \in Partitions \ Range(todo) : st[p] = "pending"
      /\ Cardinality({p \in Partitions : ChildAlive(p)}) <= 1

\* C13 witness: the child of the second partition of the list is running
\* after the first one's marker was written.
C13_Witness ==
    /\ ~Concurrent
    /\ Len(todo) >= 2
    /\ ChildAlive(todo[2])
    /\ wrote[todo[1]] = 1
    /\ MarkerOf(todo[1]).exists

\* The marker of p gives no prior steps: it is absent, or what it holds is
\* not an integer (int() raises on it, as open() and read() do on a file that
\* cannot be read).
UnusableMarker(p) == ~MarkerOf(p).exists \/ ~ParseInt(MarkerOf(p).text).ok

\* C14 (resumption read errors are not errors): a train_a_partition call that
\* finds the marker absent or not an integer can always go on to the command
\* (and the launch, or the display in a dry run); and when it takes its first
\* step it never skips the partition, and it ends there only by the dry-run
\* display, by an exception of the command building, or by an interrupt.
C14_UnusableMarkerIsNoError ==
    /\ [](\A p \in Partitions :
            (MayRun(p) /\ st[p] = "pending" /\ UnusableMarker(p)) =>
                ENABLED (Start(p) /\ st'[p] = AfterBuild(config.dry_run)))
    /\ [][\A p \in Partitions :
            (st[p] = "pending" /\ st'[p] # "pending" /\ UnusableMarker(p)) =>
                /\ ret'[p] # <<p, 0>>
                /\ st'[p] \in {"built", "done", "raised", "kbi"}
                /\ (st'[p] = "done" => config.dry_run /\ printed'[p] # <<>>)
                /\ (st'[p] = "kbi" => interrupts' > interrupts)]_vars

\* C14 witness: the child of a partition whose marker holds text that is not
\* a number has been launched.
C14_Witness ==
    \E p \in Partitions :
        /\ MarkerOf(p).exists
        /\ ~ParseInt(MarkerOf(p).text).ok
        /\ st[p] = "running"
        /\ launched[p] = 1

\* C15 (meaning of outcome codes): for every (partition_idx, ret_code) a
\* train_a_partition call has returned, a negative ret_code means no child of
\* the partition was launched in the call, and ret_code 0 means the partition
\* was skipped as trained or its child exited with code 0.
C15_OutcomeCodes ==
    \A p \in Partitions :
        ret[p] # <<>> =>
            /\ (ret[p][2] < 0 => launched[p] = 0)
            /\ (ret[p][2] = 0 => (Skipped(p) \/ exitc[p] = <<0>>))

\* C16 (command vector order): the vector built for a partition is the base
\* invocation, the dataset parser when the subclass names one, the config file
\* when given, the overridable partition arguments, the pass-through training
\* arguments, the dataset arguments, the scaled hyper-parameters, the
\* experiment name, dataset path, project, output and logger, and the
\* non-overridable partition arguments last; so no overridable or
\* pass-through argument comes after a non-overridable one.  With srun_args
\* the vector is that one, unchanged, after "srun", the output path, the job
\* name <project>-<experiment name> and the srun arguments.
C16_CommandVectorOrder ==
    \A p \in Partitions :
        cmd[p] # <<>> =>
            LET name == get_experiment_name(p, config.name_suffix)
                wrap == IF Len(config.srun_args) > 0
                        THEN <<"srun", "--output=">> \o srun_output_dir(config) \o <<"/">>
                             \o name \o <<".txt">>
                             \o <<"--job-name=", config.project_name, "-">> \o name
                             \o config.srun_args
                        ELSE <<>>
                base == <<"python", "main.py", "fit">>
                parser == IF subtype.dataparser.supported
                          THEN <<"--data.parser", subtype.dataparser.name>> ELSE <<>>
                file == IF config.config_file.given
                        THEN <<"--config=", config.config_file.path>> ELSE <<>>
                scaled == to_command_args(MaxStepsOf(p))
                naming == <<"-n=">> \o name
                          \o <<"--data.path", "dataset", "--project", config.project_name,
                               "--output">> \o project_output_dir(config)
                          \o <<"--logger", "wandb">>
            IN  /\ cmd[p] = wrap \o base \o parser \o file \o subtype.overridable
                              \o config.training_args \o subtype.dataset \o scaled
                              \o naming \o subtype.final
                /\ \A i, j \in 1 .. Len(cmd[p]) :
                     ( /\ cmd[p][i] \in Range(subtype.final)
                       /\ cmd[p][j] \in Range(subtype.overridable)
                                          \cup Range(config.training_args) )
                     => j < i

\* C16 witness: a vector built with srun_args, a config file, a dataset
\* parser and every hook returning an argument.
C16_Witness ==
    \E p \in Partitions :
        /\ cmd[p] # <<>>
        /\ Len(config.srun_args) > 0
        /\ config.config_file.given
        /\ subtype.dataparser.supported
        /\ subtype.overridable # <<>> /\ subtype.dataset # <<>> /\ subtype.final # <<>>
        /\ cmd[p][Len(cmd[p])] = "--fin"

\* Stream s is at end of file for run_subprocess: the child's end is closed
\* and nothing of it is left in the pipe or in the reader.
AtEndOfStream(s) == ~isOpen[s] /\ pipe[s] = <<>> /\ rbuf[s] = <<>>

\* The order half of C17: p.wait() is reached only with both streams
\* unregistered and at end of file; a stream is unregistered only at its own
\* end of file, one at a time, and never registered again.
ShutdownOrder ==
    /\ [](spc \in {"wait", "returned"} =>
            reg = {} /\ \A s \in Streams : AtEndOfStream(s))
    /\ [][reg' # reg =>
            \E s \in reg : reg' = reg \ {s} /\ AtEndOfStream(s)' /\ Head(events) = s]_vars

\* C17 (supervisor shutdown order and termination): the order of
\* ShutdownOrder holds, and if the child eventually exits, closing both
\* streams, run_subprocess eventually returns.
C17_ShutdownOrderAndTermination ==
    /\ ShutdownOrder
    /\ (<>(~alive) => <>(spc = "returned"))

\* C18 (concurrent strategy submission): with srun_args the pool has one
\* worker per partition of the filtered list, so a submitted call that has
\* not begun can always begin, whatever the other calls are doing; and no
\* completion is consumed, nor does as_completed begin, while a partition is
\* still to be submitted.
C18_ConcurrentSubmission ==
    (Concurrent /\ orch \in {"submit", "collect", "drain"}) =>
        /\ PoolWorkers = Cardinality(Range(todo))
        /\ \A p \in Submitted : st[p] = "pending" => ENABLED Start(p)
        /\ (orch = "submit" => consumed = <<>> /\ batch = {})
        /\ (orch # "submit" => Submitted = Range(todo))

\* C18 witness: the children of two partitions are running at once before
\* any completion is consumed.
C18_Witness ==
    /\ Concurrent
    /\ consumed = <<>>
    /\ \E p, q \in Range(todo) : p # q /\ st[p] = "running" /\ st[q] = "running"

\* The counting and reporting half of C19: no future is consumed twice, every
\* consumed one is a done future of the list, every consumed call that
\* returned an outcome has its report line, in consumption order, with its
\* index, id string, exit code, the number of futures consumed up to it and
\* the total; and a run that returns has consumed them all.
ConsumedOnceAndReported ==
    LET outcomes == FilterSeq(consumed, {p \in Partitions : st[p] = "done"})
    IN  /\ \A i, j \in 1 .. Len(consumed) : i # j => consumed[i] # consumed[j]
        /\ Range(consumed) \subseteq Range(finished)
        /\ Range(finished) \subseteq Range(todo)
        /\ Len(reports) = Len(outcomes)
        /\ \A k \in 1 .. Len(reports) :
             reports[k] = [idx |-> outcomes[k], id |-> get_partition_id_str(outcomes[k]),
                           code |-> ret[outcomes[k]][2],
                           count |-> IndexIn(consumed, outcomes[k]), total |-> Len(todo)]
        /\ (orch = "returned" =>
               Range(consumed) = Range(todo) /\ Len(consumed) = Len(todo))

ShardMarkerPaths(n, w) ==
    {partition_trained_step_file_path(p) :
       p \in Range(get_trainable_partition_idx_list(scene, config.min_images, n, w))}

C21_MergeIsPure ==
    /\ [](/\ Globals = Builtins
          /\ (parses > 0 =>
                LET r == parse_scalable_params(Builtins, args)
                IN  parsed = [raised |-> r.raised, dict |-> r.dict, list |-> r.list]))
    /\ [][(parses > 0 /\ args' = args) => parsed' = parsed]_vars

\* C22 (an empty filtered list is no error): when the list left by the shard
\* and the allowlist is empty, train_partitions returns normally and has
\* launched nothing, with or without srun_args.
C22_EmptyListReturns ==
    (orch # "start" /\ todo = <<>>) =>
        /\ orch = "returned"
        /\ \A p \in Partitions : launched[p] = 0 /\ st[p] = "pending"

\* The step budget a marker file records, when it holds an integer.
Records(f) == f.exists /\ ParseInt(f.text).ok
Recorded(f) == ParseInt(f.text).value

\* C23 (the ledger is monotonic): in every step, for every partition, a
\* marker that exists still exists afterwards; one that records a budget
\* records one afterwards that is not smaller; and the marker of a partition
\* that is absent or records a budget is written only when it is absent or
\* its budget is strictly smaller than the max_steps being written.
C23_LedgerMonotonic ==
    [][\A p \in Partitions :
         /\ MarkerOf(p).exists => MarkerOf(p)'.exists
         /\ Records(MarkerOf(p)) =>
               Records(MarkerOf(p)') /\ Recorded(MarkerOf(p)') >= Recorded(MarkerOf(p))
         /\ (wrote'[p] > wrote[p] /\ Records(MarkerOf(p))) =>
               Recorded(MarkerOf(p)) < MaxStepsOf(p)]_vars

====
